---- MODULE Spec2Model ----
(***************************************************************************)
(* A model of IntegerSet (src/IntSet.py): an allocator of integer ids      *)
(* backed by a counting filter (__num_filter_alloc), an in-memory set      *)
(* (__allocation_set) and a pickled set on disk (serialized_numset.pkl).   *)
(*                                                                         *)
(* Scaling.  The literals of the source are far beyond exhaustive search,  *)
(* so each is replaced by a small stand-in with the same role:             *)
(*   DomainSize      for randrange(10000000)            (line 52)          *)
(*   MaxAttempts     for range(10000000)                (line 51)          *)
(*   FlushThreshold  for len(...) > 1000000             (line 58)          *)
(*   ExhaustStride   for i % 1000000                    (line 62)          *)
(*   HashBits        for the 64 bits of hash() and of                      *)
(*                   (sys.maxsize + 1) * 2 = 2^64       (line 102)         *)
(* The stand-ins keep the order of the literals: DomainSize exceeds        *)
(* FlushThreshold + 1, so ids remain outside a full HotSet.                *)
(* Python's hash of a str is a per-process pseudo-random signed word; the  *)
(* model picks it once, in Init, as an arbitrary function hashOf.          *)
(*                                                                         *)
(* An exception leaving allocate or release is an outcome of the call      *)
(* (last.out names it); the state it leaves behind is the state at the     *)
(* statement that raised.                                                  *)
(***************************************************************************)
EXTENDS Integers, Sequences, FiniteSets, TLC

\* ---------------------------------------------------------------- bounds
DomainSize == 3
FlushThreshold == 1
MaxAttempts == 2
ExhaustStride == 2
HashBits == 4
\* Calls are explored while every filter counter and the total stay within
\* -1 .. MaxCount (the source's counters are unbounded Python ints).
MaxCount == 4
\* The same limit for the calls explored with their history (SpecTraced).
TracedCount == 2

Domain == 0 .. (DomainSize - 1)

RECURSIVE Pow2(_)
Pow2(n) == IF n = 0 THEN 1 ELSE 2 * Pow2(n - 1)

\* The values hash() can take: a signed word of HashBits bits.
HashRange == (0 - Pow2(HashBits - 1)) .. (Pow2(HashBits - 1) - 1)

\* The hash values Init draws from: digit strings "1", "11", "101" and the
\* all-ones word of a negative hash.  They differ in length and in the
\* positions they set, and share positions with one another.
HashSamples == {h \in HashRange : h \in {0 - 1, 1, 3, 5}}

\* The threads that call into one IntegerSet object.
Callers == {"a", "b"}

VARIABLES
    hashOf,            \* hash("{0:b}".format(n)) for each id n of the domain
    num_filter_alloc,  \* self.__num_filter_alloc: index -> counter
    allocation_set,    \* self.__allocation_set
    total,             \* self.__total
    disk,              \* the file serialized_numset.pkl
    last,              \* the last call: operation, argument, outcome
    run,               \* history: the number of calls made, while every call
                       \* so far is an allocate that returned an id (else -1)
    issued,            \* history: ids returned by allocate, not released since
    streak,            \* history: ids returned by allocate since the last
                       \* release call
    fadded,            \* history: ids whose last completed filter operation
                       \* is an add
    callers            \* per calling thread: its position inside allocate and
                       \* the locals of the call (i, rando), with what its
                       \* last call returned

state == <<num_filter_alloc, allocation_set, total, disk>>
traced == <<issued, streak, fadded>>
vars == <<hashOf, num_filter_alloc, allocation_set, total, disk, last, run,
          issued, streak, fadded, callers>>

\* ------------------------------------------------------------- the hash
\* "{0:b}".format(n) for n >= 0: the binary digits of n, most significant
\* first, no leading zeros ("0" for 0).  Position i of the Python string is
\* element i + 1 of the sequence.
RECURSIVE Bin(_)
Bin(n) == IF n < 2 THEN <<n>> ELSE Bin(n \div 2) \o <<n % 2>>

Abs(h) == IF h < 0 THEN 0 - h ELSE h

\* len(bin(h)): "0b" or "-0b" followed by the digits of |h|.
BinLen(h) == (IF h < 0 THEN 3 ELSE 2) + Len(Bin(Abs(h)))

\* _fancy_hash(num): the digits of hash(...) % 2^HashBits.
fancy_hash(num) == Bin(hashOf[num] % Pow2(HashBits))

\* The length of the counter list built by __init__: len(bin(hash("1"))),
\* and hash("1") is the hash _fancy_hash uses for the id 1.
FilterLen == BinLen(hashOf[1])

\* --------------------------------------------------------------- the disk
NoFile == [state |-> "absent", ids |-> {}]
Pickled(S) == [state |-> "pickled", ids |-> S]
\* open(..., 'wb') on an existing file empties it before anything is read.
Truncated == [state |-> "truncated", ids |-> {}]

exists(d) == d.state # "absent"

\* The ids the persisted set holds (none when there is no readable set).
ColdStore == IF disk.state = "pickled" THEN disk.ids ELSE {}
HotSet == allocation_set
\* The ids held in either exact tier.
Allocated == HotSet \cup ColdStore

\* ------------------------------------------------------------- the filter
\* _check_filter, from string position i on: the first '1' position whose
\* counter is not exactly 1 answers False; a '1' position beyond the counter
\* list raises IndexError.
RECURSIVE CheckFrom(_, _, _)
CheckFrom(f, ha, i) ==
    IF i >= Len(ha) THEN "True"
    ELSE IF ha[i + 1] = 1
         THEN IF i >= FilterLen THEN "IndexError"
              ELSE IF f[i] # 1 THEN "False"
              ELSE CheckFrom(f, ha, i + 1)
         ELSE CheckFrom(f, ha, i + 1)

check_filter(f, num) == CheckFrom(f, fancy_hash(num), 0)

\* The loop of _add_to_filter (d = 1) and _rm_from_filter (d = -1), from
\* string position i on.  The counters already stepped stay stepped when a
\* later position raises IndexError.
RECURSIVE StepFrom(_, _, _, _)
StepFrom(f, ha, i, d) ==
    IF i >= Len(ha) THEN [filter |-> f, out |-> "ok"]
    ELSE IF ha[i + 1] = 1
         THEN IF i >= FilterLen THEN [filter |-> f, out |-> "IndexError"]
              ELSE StepFrom([f EXCEPT ![i] = @ + d], ha, i + 1, d)
         ELSE StepFrom(f, ha, i + 1, d)

add_to_filter(f, num) == StepFrom(f, fancy_hash(num), 0, 1)

\* _rm_from_filter with its loop started one position late.
rm_skips_first(f, num) == StepFrom(f, fancy_hash(num), 1, 0 - 1)

rm_from_filter(f, num) == StepFrom(f, fancy_hash(num), 0, 0 - 1)

\* ------------------------------------------------------- the disk routines
\* _dump_set_to_disk without line 32: the in-memory set is not cleared.
dump_keeps_set(S, d) ==
    IF exists(d)
    THEN [set |-> S, disk |-> Truncated, out |-> "UnsupportedOperation"]
    ELSE [set |-> S, disk |-> Pickled(S), out |-> "ok"]

\* _dump_set_to_disk.  With a file present it is opened 'wb' (emptied) and
\* pickle.load on the write-only handle raises io.UnsupportedOperation: the
\* in-memory set is kept.  With no file the set is pickled and cleared.
dump_set_to_disk(S, d) ==
    IF exists(d)
    THEN [set |-> S, disk |-> Truncated, out |-> "UnsupportedOperation"]
    ELSE [set |-> {}, disk |-> Pickled(S), out |-> "ok"]

\* _check_disk without the os.path.exists test of line 37: open(..., 'wb')
\* creates the file when there is none.
check_disk_unguarded(d, num, remove) ==
    IF exists(d)
    THEN [disk |-> Truncated, out |-> "UnsupportedOperation"]
    ELSE [disk |-> Truncated, out |-> "False"]

\* _check_disk.  With a file present it is opened 'wb' (emptied) and
\* pickle.load raises, for either value of remove, so lines 40-45 never run.
\* With no file the answer is False.
check_disk(d, num, remove) ==
    IF exists(d)
    THEN [disk |-> Truncated, out |-> "UnsupportedOperation"]
    ELSE [disk |-> d, out |-> "False"]

\* ------------------------------------------------------------ the calls
\* What a call leaves behind: the four fields, its outcome (out, val), the
\* candidate or argument it decided on, and the filter operation it
\* completed (fop).
Outcome(f, S, t, d, out, val, cand, fop) ==
    [filter |-> f, set |-> S, total |-> t, disk |-> d,
     out |-> out, val |-> val, cand |-> cand, fop |-> fop]

\* Lines 56-61 of allocate: the commit of candidate rando, the disk being d.
Commit(rando, d) ==
    LET a == add_to_filter(num_filter_alloc, rando)
        S1 == allocation_set \cup {rando}
    IN  IF a.out = "IndexError"
        THEN Outcome(a.filter, allocation_set, total, d,
                     "IndexError", 0 - 1, rando, "none")
        ELSE IF Cardinality(S1) > FlushThreshold
             THEN LET w == dump_set_to_disk(S1, d)
                  IN  IF w.out = "ok"
                      THEN Outcome(a.filter, w.set, total + 1, w.disk,
                                   "id", rando, rando, "add")
                      ELSE Outcome(a.filter, w.set, total, w.disk,
                                   w.out, 0 - 1, rando, "add")
             ELSE Outcome(a.filter, S1, total + 1, d,
                          "id", rando, rando, "add")

\* The condition of line 53 for candidate rando, evaluated left to right with
\* Python's short circuit: "free" when it is true, "taken" when it is false,
\* or the exception raised while evaluating it.  _check_disk answers only
\* False or raises, so "taken" is never the verdict.
Judge(rando) ==
    LET cf == check_filter(num_filter_alloc, rando)
    IN  IF cf = "IndexError"
        THEN [verdict |-> "IndexError", disk |-> disk]
        ELSE IF cf = "False" \/ rando \notin allocation_set
        THEN [verdict |-> "free", disk |-> disk]
        ELSE LET c == check_disk(disk, rando, FALSE)
             IN  IF c.out = "UnsupportedOperation"
                 THEN [verdict |-> c.out, disk |-> c.disk]
                 ELSE IF c.out = "False"
                 THEN [verdict |-> "free", disk |-> c.disk]
                 ELSE [verdict |-> "taken", disk |-> c.disk]

\* The loop of allocate with a commit that goes back to sampling: neither
\* the commit nor the iteration counter advances.
LoopNext_spin(i, verdict) ==
    IF verdict \in {"IndexError", "UnsupportedOperation"}
    THEN [pc |-> "raise", i |-> i]
    ELSE [pc |-> "judge", i |-> i]

\* Where the loop of allocate goes after the condition of line 53, in
\* iteration i: into the commit of lines 56-61, out by an exception, out by
\* `return 0` (line 63), or to the next iteration.
LoopNext(i, verdict) ==
    IF verdict \in {"IndexError", "UnsupportedOperation"}
    THEN [pc |-> "raise", i |-> i]
    ELSE IF verdict = "free"
    THEN [pc |-> "commit", i |-> i]
    ELSE IF i % ExhaustStride # 0 /\ total = DomainSize
    THEN [pc |-> "return0", i |-> i]
    ELSE [pc |-> "judge", i |-> i + 1]

\* allocate: the outcomes of the loop from iteration i on.  AllocIter is one
\* iteration with the sampled candidate rando.
RECURSIVE AllocOutcomes(_)
RECURSIVE AllocIter(_, _)
AllocIter(i, rando) ==
    LET j == Judge(rando)
        n == LoopNext(i, j.verdict)
    IN  IF n.pc = "raise"
        THEN {Outcome(num_filter_alloc, allocation_set, total, j.disk,
                      j.verdict, 0 - 1, rando, "none")}
        ELSE IF n.pc = "commit"
        THEN {Commit(rando, j.disk)}
        ELSE IF n.pc = "return0"
        THEN {Outcome(num_filter_alloc, allocation_set, total, j.disk,
                      "id", 0, rando, "none")}
        ELSE AllocOutcomes(n.i)

AllocOutcomes(i) ==
    IF i >= MaxAttempts
    THEN {Outcome(num_filter_alloc, allocation_set, total, disk,
                  "None", 0 - 1, 0 - 1, "none")}
    ELSE UNION {AllocIter(i, rando) : rando \in Domain}

\* release(x), lines 65-78.
ReleaseOutcome(x) ==
    LET alloc_set_member == x \in allocation_set
        cf == check_filter(num_filter_alloc, x)
    IN  IF cf = "IndexError"
        THEN Outcome(num_filter_alloc, allocation_set, total, disk,
                     "IndexError", 0 - 1, x, "none")
        ELSE LET c == IF cf = "False" /\ ~alloc_set_member
                      THEN check_disk(disk, x, FALSE)
                      ELSE [disk |-> disk, out |-> "skipped"]
             IN  IF c.out = "UnsupportedOperation"
                 THEN Outcome(num_filter_alloc, allocation_set, total,
                              c.disk, c.out, 0 - 1, x, "none")
                 ELSE IF c.out = "False"
                 THEN Outcome(num_filter_alloc, allocation_set, total,
                              c.disk, "False", 0 - 1, x, "none")
                 ELSE LET r == rm_from_filter(num_filter_alloc, x)
                      IN  IF r.out = "IndexError"
                          THEN Outcome(r.filter, allocation_set, total,
                                       c.disk, "IndexError", 0 - 1, x, "none")
                          ELSE IF alloc_set_member
                          THEN Outcome(r.filter, allocation_set \ {x},
                                       total - 1, c.disk,
                                       "True", 0 - 1, x, "rm")
                          ELSE LET e == check_disk(c.disk, x, TRUE)
                               IN  IF e.out = "UnsupportedOperation"
                                   THEN Outcome(r.filter, allocation_set,
                                                total, e.disk, e.out,
                                                0 - 1, x, "rm")
                                   ELSE Outcome(r.filter, allocation_set,
                                                total - 1, e.disk,
                                                "True", 0 - 1, x, "rm")

\* ------------------------------------------------------- the state machine
InBounds(o) ==
    /\ o.total \in (0 - 1) .. MaxCount
    /\ \A i \in DOMAIN o.filter : o.filter[i] \in (0 - 1) .. MaxCount

\* A thread that is not inside allocate; ret is what its last call returned
\* (-1: nothing), full whether every id was allocated when that call began,
\* raced whether it passed line 53 while another thread was between its own
\* line 53 and the end of its commit.
Idle == [pc |-> "idle", i |-> 0, rando |-> 0 - 1, ret |-> 0 - 1,
         full |-> FALSE, raced |-> FALSE]

\* A fresh process in a directory with no serialized_numset.pkl.
Init ==
    /\ hashOf \in [Domain -> HashSamples]
    /\ num_filter_alloc = [i \in 0 .. (FilterLen - 1) |-> 0]
    /\ allocation_set = {}
    /\ total = 0
    /\ disk = NoFile
    /\ last = [op |-> "none", arg |-> 0 - 1, out |-> "none", val |-> 0 - 1,
               held |-> FALSE]
    /\ run = 0
    /\ issued = {}
    /\ streak = {}
    /\ fadded = {}
    /\ callers = [t \in Callers |-> Idle]

Apply(o) ==
    /\ InBounds(o)
    /\ num_filter_alloc' = o.filter
    /\ allocation_set' = o.set
    /\ total' = o.total
    /\ disk' = o.disk
    /\ UNCHANGED hashOf

\* One call of allocate with outcome o.  last.arg is the candidate the call
\* decided on.
AllocateCall(o) ==
    /\ Apply(o)
    /\ last' = [op |-> "allocate", arg |-> o.cand, out |-> o.out,
                val |-> o.val, held |-> FALSE]
    /\ run' = IF run >= 0 /\ run <= FlushThreshold /\ o.out = "id"
              THEN run + 1 ELSE 0 - 1

\* One call of release(x) with outcome o.  last.held: x was issued and not
\* yet released when the call was made.
ReleaseCall(x, o) ==
    /\ Apply(o)
    /\ last' = [op |-> "release", arg |-> x, out |-> o.out, val |-> 0 - 1,
                held |-> x \in issued]
    /\ run' = 0 - 1

Allocate ==
    \E o \in AllocOutcomes(0) : AllocateCall(o) /\ UNCHANGED <<traced, callers>>

Release ==
    \E x \in Domain : ReleaseCall(x, ReleaseOutcome(x)) /\ UNCHANGED <<traced, callers>>

Next == Allocate \/ Release

Spec == Init /\ [][Next]_vars

InTracedBounds ==
    /\ total' <= TracedCount
    /\ \A i \in DOMAIN num_filter_alloc' : num_filter_alloc'[i] <= TracedCount

\* The same calls, with the history of what was issued and of what the
\* filter was told.
AllocateTraced ==
    \E o \in AllocOutcomes(0) :
        /\ AllocateCall(o)
        /\ InTracedBounds
        /\ issued' = IF o.out = "id" THEN issued \cup {o.val} ELSE issued
        /\ streak' = IF o.out = "id" THEN streak \cup {o.val} ELSE streak
        /\ fadded' = IF o.fop = "add" THEN fadded \cup {o.cand} ELSE fadded
        /\ UNCHANGED callers

ReleaseTraced ==
    \E x \in Domain :
        LET o == ReleaseOutcome(x)
        IN  /\ ReleaseCall(x, o)
            /\ InTracedBounds
            /\ issued' = IF o.out = "True" THEN issued \ {x} ELSE issued
            /\ streak' = {}
            /\ fadded' = IF o.fop = "rm" THEN fadded \ {x} ELSE fadded
            /\ UNCHANGED callers

NextTraced == AllocateTraced \/ ReleaseTraced

SpecTraced == Init /\ [][NextTraced]_vars

\* The two filter updates on their own, applied in any order to any id:
\* the counter lists they can produce from the fresh one.
AddToFilter ==
    \E x \in Domain :
        LET a == add_to_filter(num_filter_alloc, x)
        IN  /\ Apply(Outcome(a.filter, allocation_set, total, disk,
                             a.out, 0 - 1, x, "add"))
            /\ last' = [op |-> "add", arg |-> x, out |-> a.out,
                        val |-> 0 - 1, held |-> FALSE]
            /\ UNCHANGED <<run, traced, callers>>

RmFromFilter ==
    \E x \in Domain :
        LET r == rm_from_filter(num_filter_alloc, x)
        IN  /\ Apply(Outcome(r.filter, allocation_set, total, disk,
                             r.out, 0 - 1, x, "rm"))
            /\ last' = [op |-> "rm", arg |-> x, out |-> r.out,
                        val |-> 0 - 1, held |-> FALSE]
            /\ UNCHANGED <<run, traced, callers>>

NextFilter == AddToFilter \/ RmFromFilter

SpecFilter == Init /\ [][NextFilter]_vars

\* -------------------------------------------- allocate, one step at a time
\* allocate holds no lock, so a thread can be preempted between the
\* condition of line 53 and the commit of lines 56-61.  The call is split
\* there: Enter (line 51), JudgeStep (lines 52-53 and the way out of the
\* loop), CommitStep (lines 56-61).
InCall(t) == callers[t].pc # "idle"

\* Room for the calls in flight and one more under the explored counts.
Room ==
    LET n == Cardinality({t \in Callers : InCall(t)}) + 1
    IN  /\ total + n <= MaxCount
        /\ \A k \in DOMAIN num_filter_alloc :
               num_filter_alloc[k] + n <= MaxCount

Returned(t, val) ==
    [callers EXCEPT ![t] = [@ EXCEPT !.pc = "idle", !.i = 0,
                                     !.rando = 0 - 1, !.ret = val]]

Enter(t) ==
    /\ ~InCall(t)
    /\ Room
    /\ callers' = [callers EXCEPT ![t] =
                       [pc |-> "judge", i |-> 0, rando |-> 0 - 1,
                        ret |-> 0 - 1, full |-> (Allocated = Domain),
                        raced |-> FALSE]]
    /\ UNCHANGED <<state, hashOf, last, run, traced>>

JudgeStep(t) ==
    /\ callers[t].pc = "judge"
    /\ IF callers[t].i >= MaxAttempts
       THEN /\ AllocateCall(Outcome(num_filter_alloc, allocation_set, total,
                                    disk, "None", 0 - 1, 0 - 1, "none"))
            /\ callers' = Returned(t, 0 - 1)
       ELSE \E rando \in Domain :
              LET j == Judge(rando)
                  n == LoopNext(callers[t].i, j.verdict)
                  inside == {u \in Callers \ {t} : callers[u].pc = "commit"}
              IN  IF n.pc = "raise"
                  THEN /\ AllocateCall(Outcome(num_filter_alloc,
                                               allocation_set, total, j.disk,
                                               j.verdict, 0 - 1, rando,
                                               "none"))
                       /\ callers' = Returned(t, 0 - 1)
                  ELSE IF n.pc = "return0"
                  THEN /\ AllocateCall(Outcome(num_filter_alloc,
                                               allocation_set, total, j.disk,
                                               "id", 0, rando, "none"))
                       /\ callers' = Returned(t, 0)
                  ELSE /\ callers' =
                            [u \in Callers |->
                               IF u = t
                               THEN [callers[t] EXCEPT
                                       !.pc = n.pc, !.i = n.i,
                                       !.rando = rando,
                                       !.raced = (n.pc = "commit"
                                                  /\ inside # {})]
                               ELSE IF u \in inside /\ n.pc = "commit"
                               THEN [callers[u] EXCEPT !.raced = TRUE]
                               ELSE callers[u]]
                       /\ UNCHANGED <<state, hashOf, last, run>>
    /\ UNCHANGED traced

CommitStep(t) ==
    /\ callers[t].pc = "commit"
    /\ LET o == Commit(callers[t].rando, disk)
       IN  /\ AllocateCall(o)
           /\ callers' = Returned(t, o.val)
    /\ UNCHANGED traced

\* One thread; a thread inside allocate keeps running until the call is
\* over.
NextLoop == Enter("a") \/ JudgeStep("a") \/ CommitStep("a")

SpecLoop ==
    /\ Init /\ [][NextLoop]_vars
    /\ WF_vars(JudgeStep("a")) /\ WF_vars(CommitStep("a"))

\* Two threads on the same object.
NextCallers == \E t \in Callers : Enter(t) \/ JudgeStep(t) \/ CommitStep(t)

SpecCallers == Init /\ [][NextCallers]_vars

\* ------------------------------------------------------------- the claims
\* A step that is a call of allocate / of release(x): last' describes it.
\* (A call that leaves every variable as it was, last included, is a repeat
\* of the call before it on the same state.)
AllocStep == last'.op = "allocate" /\ vars' # vars
ReleaseStep(x) == last'.op = "release" /\ last'.arg = x /\ vars' # vars

\* C1 (Uniqueness): in a sequence of allocate calls with no release call in
\* between, no call returns an id that an earlier call of the sequence
\* returned.
C1_Uniqueness ==
    [][(AllocStep /\ last'.out = "id") => last'.val \notin streak]_vars

\* C2 (Round trip on release): release(X) of an id X that allocate returned
\* and that was not released since returns True, and a release(X) that
\* immediately follows that call returns False.
C2_RoundTrip ==
    [][/\ \A x \in issued : ReleaseStep(x) => last'.out = "True"
       /\ \A x \in Domain :
            (/\ last.op = "release" /\ last.arg = x /\ last.held
             /\ last.out = "True"
             /\ ReleaseStep(x)) => last'.out = "False"]_vars

\* C3: release(id) of an id that is in neither the HotSet nor the ColdStore
\* returns False.
C3_ReleaseUnallocatedFails ==
    [][\A x \in Domain \ Allocated : ReleaseStep(x) => last'.out = "False"]_vars

\* C4 (Exhaustion): with every id of the domain allocated, allocate returns
\* no integer: it ends with the outcome that stands for CapacityExhausted
\* (the only non-integer allocate can return, None).
C4_Exhaustion ==
    [][(Allocated = Domain /\ AllocStep) => last'.out = "None"]_vars

\* C5: a release that returns False changes nothing: the filter counters,
\* the HotSet, the persisted set and the total are as before the call.
C5_FailedReleaseNoEffect ==
    [][(last'.op = "release" /\ last'.out = "False") => state' = state]_vars

\* A release returned False while ids were allocated.
C5_Witness ==
    /\ last.op = "release" /\ last.out = "False"
    /\ allocation_set # {} /\ total > 0

\* C6 (Counter invariant): the total equals |HotSet| + |ColdStore|.
C6_CounterInvariant ==
    total = Cardinality(HotSet) + Cardinality(ColdStore)

\* C7 (Filter soundness): every id that was added to the filter and not
\* removed since is answered True (maybe-present) by the filter's check.
C7_FilterSoundness ==
    \A x \in fadded : check_filter(num_filter_alloc, x) = "True"

\* C8 as stated (Flush behaviour): from an empty allocator, after the
\* (FlushThreshold + 1)-th successful allocate the HotSet has size 1 and the
\* ColdStore holds exactly the FlushThreshold ids that were hot before the
\* call.  The case taken is the one the statement is about: the ids
\* returned are pairwise distinct.
C8_FlushLeavesOne ==
    [][(/\ run = FlushThreshold
        /\ Cardinality(HotSet) = FlushThreshold
        /\ AllocStep /\ last'.out = "id" /\ last'.val \notin HotSet)
       => (Cardinality(HotSet') = 1 /\ ColdStore' = HotSet)]_vars

\* C8 as amended: a successful allocate that brings the HotSet above
\* FlushThreshold leaves the HotSet empty and the persisted set equal to the
\* ids that were hot before the call together with the id just returned.
C8_FlushDrainsAll ==
    [][(/\ AllocStep /\ last'.out = "id"
        /\ Cardinality(HotSet \cup {last'.val}) > FlushThreshold)
       => (/\ HotSet' = {}
           /\ disk' = Pickled(HotSet \cup {last'.val}))]_vars

\* The (FlushThreshold + 1)-th allocate of a fresh allocator has flushed.
C8_Witness ==
    /\ run = FlushThreshold + 1
    /\ HotSet = {}
    /\ disk.state = "pickled"
    /\ Cardinality(ColdStore) = FlushThreshold + 1
    /\ last.val \in ColdStore

\* C9 (Release of a flushed id): release(X) of an id X held by the ColdStore
\* and not by the HotSet returns True, takes X and nothing else out of the
\* persisted set, decrements X's filter counters and decrements the total
\* by 1.
C9_ReleaseFlushed ==
    [][\A x \in ColdStore \ HotSet :
         ReleaseStep(x) =>
            /\ last'.out = "True"
            /\ disk' = Pickled(ColdStore \ {x})
            /\ num_filter_alloc' = rm_from_filter(num_filter_alloc, x).filter
            /\ total' = total - 1
            /\ HotSet' = HotSet]_vars

\* C10 (Re-eligibility): an allocate that directly follows a successful
\* release(X) and samples X returns X.
C10_ReEligible ==
    [][(/\ last.op = "release" /\ last.out = "True"
        /\ AllocStep /\ last'.arg = last.arg)
       => (last'.out = "id" /\ last'.val = last.arg)]_vars

\* C12 (free-decision policy): an allocate commits a candidate only if the
\* filter, as it stood at the call, answers "definitely absent" for it, or
\* the candidate is in neither HotSet nor ColdStore.
C12_FreeDecision ==
    [][(AllocStep /\ last'.out = "id")
       => (\/ check_filter(num_filter_alloc, last'.val) = "False"
           \/ last'.val \notin Allocated)]_vars

\* C13 (tier disjointness): no id is in HotSet and in ColdStore at once.
C13_TierDisjoint == HotSet \cap ColdStore = {}

\* C14 (HotSet bound): between calls, whether the last call completed or
\* was aborted, HotSet holds at most FlushThreshold ids.
C14_HotSetBound == Cardinality(HotSet) <= FlushThreshold

\* C15 (counter positivity): for every currently allocated id, each counter
\* at a '1' position of its hash string is greater than 0.
C15_CounterPositive ==
    \A x \in Allocated :
        \A i \in DOMAIN num_filter_alloc :
            (i < Len(fancy_hash(x)) /\ fancy_hash(x)[i + 1] = 1)
                => num_filter_alloc[i] > 0

\* A step of allocate that reaches the flush of lines 58-59: the candidate
\* was added to the filter and the set grew beyond FlushThreshold.
FlushStep ==
    /\ AllocStep
    /\ last'.arg \in Domain
    /\ add_to_filter(num_filter_alloc, last'.arg).out = "ok"
    /\ num_filter_alloc' = add_to_filter(num_filter_alloc, last'.arg).filter
    /\ Cardinality(HotSet \cup {last'.arg}) > FlushThreshold

\* C16 (flush merges and never loses): a flush leaves the persisted set
\* equal to the previously persisted ids together with the drained HotSet,
\* so no id persisted before the flush is missing after it.
C16_FlushMerges ==
    [][FlushStep => ColdStore' = ColdStore \cup HotSet \cup {last'.arg}]_vars

\* C17 (failed flush loses nothing): when the flush fails, allocate raises,
\* HotSet is not drained, and every id that was in HotSet or ColdStore
\* before the flush attempt still is.
C17_FailedFlushKeeps ==
    [][(FlushStep /\ last'.out # "id")
       => (/\ last'.out = "UnsupportedOperation"
           /\ HotSet' = HotSet \cup {last'.arg}
           /\ (HotSet \cup {last'.arg} \cup ColdStore)
                  \subseteq (HotSet' \cup ColdStore'))]_vars

\* C18 (no counter underflow): every filter counter is at least 0.
C18_NoUnderflow ==
    \A i \in DOMAIN num_filter_alloc : num_filter_alloc[i] >= 0

\* C20 (filter add and remove are inverses): for every id x and the current
\* counter list, adding x and then removing x gives the counter list back,
\* and neither operation changes a counter at a position where the hash
\* string of x has no '1'.
C20_AddRmInverse ==
    \A x \in Domain :
        LET a == add_to_filter(num_filter_alloc, x)
            r == rm_from_filter(num_filter_alloc, x)
        IN  /\ rm_from_filter(a.filter, x).filter = num_filter_alloc
            /\ \A i \in DOMAIN num_filter_alloc :
                   ~(i < Len(fancy_hash(x)) /\ fancy_hash(x)[i + 1] = 1)
                       => (/\ a.filter[i] = num_filter_alloc[i]
                           /\ r.filter[i] = num_filter_alloc[i])

\* An add has completed on a counter list where ids share a position (a
\* counter above 1) while another position has never been stepped.
C20_Witness ==
    /\ last.op = "add" /\ last.out = "ok"
    /\ \E i \in DOMAIN num_filter_alloc : num_filter_alloc[i] > 1
    /\ \E i \in DOMAIN num_filter_alloc : num_filter_alloc[i] = 0

\* C11 (termination): a call of allocate that has begun samples at most
\* MaxAttempts candidates (the candidate being committed is that of an
\* iteration i < MaxAttempts) and comes to its end, whatever is allocated,
\* a full domain included.
C11_Terminates ==
    /\ [](\A t \in Callers :
            /\ callers[t].i <= MaxAttempts
            /\ callers[t].pc = "commit" => callers[t].i < MaxAttempts)
    /\ InCall("a") ~> ~InCall("a")

\* A call that began with every id of the domain allocated has sampled a
\* candidate and come to its end.
C11_Witness ==
    /\ ~InCall("a") /\ callers["a"].full
    /\ last.op = "allocate" /\ last.arg \in Domain

\* C19 (concurrent allocation): two calls of allocate that were both
\* between the check of line 53 and the end of the commit at the same time
\* never return the same id.
C19_NoSharedId ==
    \A t \in Callers : \A u \in Callers \ {t} :
        (callers[t].raced /\ callers[u].raced /\ callers[t].ret >= 0)
            => callers[t].ret # callers[u].ret

====
